---- MODULE Spec2Model ----
(***************************************************************************)
(* The room lobby of play-port: the GameLobby component (src/unnamed/      *)
(* part_000) run by several browser sessions against one store (the rooms  *)
(* and players tables of the migration) and its change feed.               *)
(*                                                                         *)
(* A store call takes effect in one step, at the store.  The continuation  *)
(* that runs after the await is a step of its own wherever it changes the  *)
(* session's state (entering the room, returning to the landing view,      *)
(* installing a roster): other sessions, notifications and clicks come in  *)
(* between.  A continuation that only issues the next call, or only ends   *)
(* the call (the catch and the finally), is taken together with the store  *)
(* step before it: it reads and writes nothing another step depends on     *)
(* except the loading flag, which it can only clear.  Toasts are not state.*)
(*                                                                         *)
(* Strings are sequences of one-character strings, so that trim() and      *)
(* toUpperCase() are computed.  The text fields playerName and roomCode    *)
(* are the inputs of the click that reads them; created_at and updated_at  *)
(* are never read and are left out of the rows.                            *)
(***************************************************************************)
EXTENDS Integers, Sequences, FiniteSets, Bags, TLC

\* ------------------------------------------------------------- bounds
\* clicks on Host Room, Join Room and the leave buttons that pass the checks
\* before the first await, over all sessions, in one behaviour
MaxClicks == 3

\* ---------------------------------------------------- program constants
\* max_players passed by hostRoom
HostMaxPlayers == 5

\* the browser sessions
Clients == {"c1", "c2"}

\* what the text fields may hold when a button is clicked
PlayerNames == {<<>>, <<" ">>, <<" ", "a">>}
TypedCodes == {<<>>, <<" ">>, <<"a">>, <<"B">>}
\* what Math.random().toString(36).substring(2, 8) may return
RandomBase36 == {<<"a">>, <<"b">>}

\* how a store call may settle: carried out, an { error } result, a rejection
StoreOutcomes == {"ok", "error", "reject"}

\* ------------------------------------------------------------- strings
UpperChar(ch) ==
    CASE ch = "a" -> "A"
      [] ch = "b" -> "B"
      [] OTHER -> ch

ToUpperCase(s) == [i \in 1..Len(s) |-> UpperChar(s[i])]

RECURSIVE TrimStart(_)
TrimStart(s) ==
    IF s # <<>> /\ Head(s) = " " THEN TrimStart(Tail(s)) ELSE s

RECURSIVE TrimEnd(_)
TrimEnd(s) ==
    IF s # <<>> /\ s[Len(s)] = " " THEN TrimEnd(SubSeq(s, 1, Len(s) - 1)) ELSE s

Trim(s) == TrimEnd(TrimStart(s))

generateRoomCode(raw) == ToUpperCase(raw)

\* --------------------------------------------------------------- state
VARIABLES
    dbRooms,        \* the rooms table
    dbPlayers,      \* the players table
    nextRoomId,     \* gen_random_uuid() of rooms
    nextPlayerId,   \* gen_random_uuid() of players
    now,            \* now() of the store
    currentView,    \* per session: "landing" | "room"
    currentRoom,    \* per session: a room row or NullRoom
    currentPlayer,  \* per session: a player row or NullPlayer
    players,        \* per session: the local roster
    loading,        \* per session
    op,             \* per session: the hostRoom / joinRoom call in flight
    leave,          \* per session: the leaveRoom call in flight
    channel,        \* per session: id of the room the channel filters on, 0: none
    evPlayers,      \* per session: players notifications not yet handled
    delivered,      \* per session: the channel was sent a players notification
    evRoomDelete,   \* per session: a rooms DELETE notification not yet handled
    fetches,        \* per session: the bag of fetchPlayers calls in flight
    location,       \* per session: "lobby", or "game" after navigate('/game')
    clicks          \* clicks that have started a call

dbVars == <<dbRooms, dbPlayers, nextRoomId, nextPlayerId, now>>
uiVars == <<currentView, currentRoom, currentPlayer, players, loading>>
vars == <<dbRooms, dbPlayers, nextRoomId, nextPlayerId, now, currentView,
          currentRoom, currentPlayer, players, loading, op, leave,
          channel, evPlayers, delivered, evRoomDelete, fetches, location,
          clicks>>

NullRoom == [id |-> 0, code |-> <<>>, host_name |-> <<>>, max_players |-> 0]
NullPlayer ==
    [id |-> 0, room_id |-> 0, name |-> <<>>, is_host |-> FALSE, joined_at |-> 0]

\* op[c].pc: "idle", or the call hostRoom / joinRoom awaits: "host_insertRoom",
\* "host_insertPlayer", "join_findRoom", "join_countPlayers",
\* "join_insertPlayer"; "host_inserted" / "join_inserted" once the players
\* insert is carried out and its continuation has not run yet
IdleOp ==
    [pc |-> "idle", name |-> <<>>, code |-> <<>>, room |-> NullRoom,
     player |-> NullPlayer]
\* leave[c].pc: "idle", the call leaveRoom awaits: "deletePlayer", "deleteRoom";
\* "settled" once its last delete has returned
IdleLeave == [pc |-> "idle", room |-> NullRoom, player |-> NullPlayer]

\* ------------------------------------------------------------ the store
\* mutant: no UNIQUE constraint
CodeIsAlwaysFree(code) == TRUE

\* rooms.code is UNIQUE
CodeIsFree(code) == \A r \in dbRooms : r.code # code

\* mutant: no foreign key
RoomAlwaysExists(roomId) == TRUE

\* players.room_id REFERENCES rooms(id)
RoomExists(roomId) == \E r \in dbRooms : r.id = roomId

PlayersOf(roomId) == {p \in dbPlayers : p.room_id = roomId}

RECURSIVE SortByJoinedAt(_)
SortByJoinedAt(S) ==
    IF S = {} THEN <<>>
    ELSE LET first == CHOOSE p \in S : \A q \in S : p.joined_at <= q.joined_at
         IN  <<first>> \o SortByJoinedAt(S \ {first})

\* mutant: the order is descending
RECURSIVE NewestFirst(_)
NewestFirst(S) ==
    IF S = {} THEN <<>>
    ELSE LET last == CHOOSE p \in S : \A q \in S : p.joined_at >= q.joined_at
         IN  <<last>> \o NewestFirst(S \ {last})
ListPlayersNewestFirst(roomId) == NewestFirst(PlayersOf(roomId))

\* .from('players').select('*').eq('room_id', id).order('joined_at', ascending)
ListPlayers(roomId) == SortByJoinedAt(PlayersOf(roomId))

\* the change feed: one more players notification for every session whose
\* channel filters on roomId
NotifyPlayers(roomId) ==
    /\ evPlayers' = [c \in Clients |->
          IF channel[c] = roomId /\ roomId # 0
          THEN evPlayers[c] + 1 ELSE evPlayers[c]]
    /\ delivered' = [c \in Clients |->
          delivered[c] \/ (channel[c] = roomId /\ roomId # 0)]

\* rows other browser sessions have left in the store before the modelled
\* ones start: one room, one slot below its capacity, with its host and the
\* players that joined it
SeedSizes == {HostMaxPlayers - 1}
SeedRoom ==
    [id |-> 100, code |-> <<"A">>, host_name |-> <<"Z">>,
     max_players |-> HostMaxPlayers]
SeedPlayers(n) ==
    {[id |-> 100 + i, room_id |-> 100, name |-> <<"Z">>, is_host |-> (i = 1),
      joined_at |-> i] : i \in 1..n}

Init ==
    /\ \E n \in SeedSizes :
         /\ dbRooms = {SeedRoom}
         /\ dbPlayers = SeedPlayers(n)
         /\ now = n + 1
    /\ nextRoomId = 1
    /\ nextPlayerId = 1
    /\ currentView = [c \in Clients |-> "landing"]
    /\ currentRoom = [c \in Clients |-> NullRoom]
    /\ currentPlayer = [c \in Clients |-> NullPlayer]
    /\ players = [c \in Clients |-> <<>>]
    /\ loading = [c \in Clients |-> FALSE]
    /\ op = [c \in Clients |-> IdleOp]
    /\ leave = [c \in Clients |-> IdleLeave]
    /\ channel = [c \in Clients |-> 0]
    /\ evPlayers = [c \in Clients |-> 0]
    /\ delivered = [c \in Clients |-> FALSE]
    /\ evRoomDelete = [c \in Clients |-> FALSE]
    /\ fetches = [c \in Clients |-> EmptyBag]
    /\ location = [c \in Clients |-> "lobby"]
    /\ clicks = 0

\* ------------------------------------------------- the subscription effect
\* mutant: the cleanup does not remove the old channel's handlers
RunEffectKeepingHandlers(c, room) ==
    /\ channel' = [channel EXCEPT ![c] = room.id]
    /\ UNCHANGED <<evRoomDelete, evPlayers, delivered>>

\* useEffect(..., [currentRoom]): the cleanup removes the old channel, and with
\* it the notifications it has not handled; a non-null room gets a new channel
RunEffect(c, room) ==
    /\ channel' = [channel EXCEPT ![c] = room.id]
    /\ evRoomDelete' = [evRoomDelete EXCEPT ![c] = FALSE]
    /\ evPlayers' = [evPlayers EXCEPT ![c] = 0]
    /\ delivered' = [delivered EXCEPT ![c] = FALSE]

\* mutant: setPlayers([]) is left out
ResetToLandingKeepingRoster(c) ==
    /\ currentRoom' = [currentRoom EXCEPT ![c] = NullRoom]
    /\ currentPlayer' = [currentPlayer EXCEPT ![c] = NullPlayer]
    /\ UNCHANGED players
    /\ currentView' = [currentView EXCEPT ![c] = "landing"]
    /\ RunEffect(c, NullRoom)

\* mutant: setCurrentPlayer(null) is left out
ResetToLandingKeepingPlayer(c) ==
    /\ currentRoom' = [currentRoom EXCEPT ![c] = NullRoom]
    /\ UNCHANGED currentPlayer
    /\ players' = [players EXCEPT ![c] = <<>>]
    /\ currentView' = [currentView EXCEPT ![c] = "landing"]
    /\ RunEffect(c, NullRoom)

\* the four setters every exit from a room calls
ResetToLanding(c) ==
    /\ currentRoom' = [currentRoom EXCEPT ![c] = NullRoom]
    /\ currentPlayer' = [currentPlayer EXCEPT ![c] = NullPlayer]
    /\ players' = [players EXCEPT ![c] = <<>>]
    /\ currentView' = [currentView EXCEPT ![c] = "landing"]
    /\ RunEffect(c, NullRoom)

\* mutant: setCurrentPlayer is left out
EnterRoomWithoutPlayer(c, room, player) ==
    /\ currentRoom' = [currentRoom EXCEPT ![c] = room]
    /\ UNCHANGED currentPlayer
    /\ currentView' = [currentView EXCEPT ![c] = "room"]
    /\ RunEffect(c, room)

\* setCurrentRoom, setCurrentPlayer, setCurrentView('room')
EnterRoom(c, room, player) ==
    /\ currentRoom' = [currentRoom EXCEPT ![c] = room]
    /\ currentPlayer' = [currentPlayer EXCEPT ![c] = player]
    /\ currentView' = [currentView EXCEPT ![c] = "room"]
    /\ RunEffect(c, room)

\* mutant: no finally, the loading flag stays set
OpEndsStillLoading(c) ==
    /\ UNCHANGED loading
    /\ op' = [op EXCEPT ![c] = IdleOp]

\* the catch and the finally of hostRoom and joinRoom, and their early returns
\* through the finally: setLoading(false), and the call is over
OpEnds(c) ==
    /\ loading' = [loading EXCEPT ![c] = FALSE]
    /\ op' = [op EXCEPT ![c] = IdleOp]

\* --------------------------------------------------------------- hostRoom
\* the click on Host Room, up to the first await
HostRoom(c, name, raw) ==
    /\ location[c] = "lobby"
    /\ currentView[c] = "landing"
    /\ ~loading[c]
    /\ op[c].pc = "idle"
    /\ IF Trim(name) = <<>>
       THEN UNCHANGED <<loading, op, clicks>>
       ELSE /\ clicks < MaxClicks
            /\ clicks' = clicks + 1
            /\ loading' = [loading EXCEPT ![c] = TRUE]
            /\ op' = [op EXCEPT ![c] = [IdleOp EXCEPT !.pc = "host_insertRoom",
                          !.name = name, !.code = generateRoomCode(raw)]]
    /\ UNCHANGED <<dbVars, currentView, currentRoom, currentPlayer, players,
                   leave, channel, evPlayers, delivered, evRoomDelete, fetches, location>>

\* .from('rooms').insert({code, host_name, max_players: 5}).select().single()
\* and `if (roomError) throw roomError`
HostInsertRoom(c) ==
    /\ op[c].pc = "host_insertRoom"
    /\ \E out \in StoreOutcomes :
         /\ out = "ok" => CodeIsFree(op[c].code)
         /\ IF out = "ok"
            THEN LET row == [id |-> nextRoomId, code |-> op[c].code,
                             host_name |-> op[c].name,
                             max_players |-> HostMaxPlayers]
                 IN  /\ dbRooms' = dbRooms \cup {row}
                     /\ nextRoomId' = nextRoomId + 1
                     /\ now' = now + 1
                     /\ op' = [op EXCEPT ![c].pc = "host_insertPlayer",
                                         ![c].room = row]
                     /\ UNCHANGED loading
            ELSE /\ OpEnds(c)
                 /\ UNCHANGED <<dbRooms, nextRoomId, now>>
    /\ UNCHANGED <<location, clicks, dbPlayers, nextPlayerId, currentView, currentRoom,
                   currentPlayer, players, leave, channel, evPlayers, delivered,
                   evRoomDelete, fetches>>

\* mutant: is_host is left to its default, false
InsertPlayerAsGuest(c, isHost, donePc) ==
    \E out \in StoreOutcomes :
      /\ out = "ok" => RoomExists(op[c].room.id)
      /\ IF out = "ok"
         THEN LET row == [id |-> nextPlayerId, room_id |-> op[c].room.id,
                          name |-> op[c].name, is_host |-> FALSE,
                          joined_at |-> now]
              IN  /\ dbPlayers' = dbPlayers \cup {row}
                  /\ nextPlayerId' = nextPlayerId + 1
                  /\ now' = now + 1
                  /\ NotifyPlayers(op[c].room.id)
                  /\ op' = [op EXCEPT ![c].pc = donePc, ![c].player = row]
                  /\ UNCHANGED loading
         ELSE /\ OpEnds(c)
              /\ UNCHANGED <<dbPlayers, nextPlayerId, now, evPlayers, delivered>>
      /\ UNCHANGED <<location, clicks, dbRooms, nextRoomId, currentView, currentRoom,
                     currentPlayer, players, leave, channel, evRoomDelete,
                     fetches>>

\* mutant: is_host: true in every insert
InsertPlayerAsHost(c, isHost, donePc) ==
    \E out \in StoreOutcomes :
      /\ out = "ok" => RoomExists(op[c].room.id)
      /\ IF out = "ok"
         THEN LET row == [id |-> nextPlayerId, room_id |-> op[c].room.id,
                          name |-> op[c].name, is_host |-> TRUE,
                          joined_at |-> now]
              IN  /\ dbPlayers' = dbPlayers \cup {row}
                  /\ nextPlayerId' = nextPlayerId + 1
                  /\ now' = now + 1
                  /\ NotifyPlayers(op[c].room.id)
                  /\ op' = [op EXCEPT ![c].pc = donePc, ![c].player = row]
                  /\ UNCHANGED loading
         ELSE /\ OpEnds(c)
              /\ UNCHANGED <<dbPlayers, nextPlayerId, now, evPlayers, delivered>>
      /\ UNCHANGED <<location, clicks, dbRooms, nextRoomId, currentView, currentRoom,
                     currentPlayer, players, leave, channel, evRoomDelete,
                     fetches>>

\* .from('players').insert({room_id, name, is_host}).select().single() and
\* `if (playerError) throw playerError`
InsertPlayer(c, isHost, donePc) ==
    \E out \in StoreOutcomes :
      /\ out = "ok" => RoomExists(op[c].room.id)
      /\ IF out = "ok"
         THEN LET row == [id |-> nextPlayerId, room_id |-> op[c].room.id,
                          name |-> op[c].name, is_host |-> isHost,
                          joined_at |-> now]
              IN  /\ dbPlayers' = dbPlayers \cup {row}
                  /\ nextPlayerId' = nextPlayerId + 1
                  /\ now' = now + 1
                  /\ NotifyPlayers(op[c].room.id)
                  /\ op' = [op EXCEPT ![c].pc = donePc, ![c].player = row]
                  /\ UNCHANGED loading
         ELSE /\ OpEnds(c)
              /\ UNCHANGED <<dbPlayers, nextPlayerId, now, evPlayers, delivered>>
      /\ UNCHANGED <<location, clicks, dbRooms, nextRoomId, currentView, currentRoom,
                     currentPlayer, players, leave, channel, evRoomDelete,
                     fetches>>

\* mutant: a failed players insert takes the room row back
HostInsertPlayerRollingBack(c) ==
    /\ op[c].pc = "host_insertPlayer"
    /\ \E out \in StoreOutcomes :
         /\ out = "ok" => RoomExists(op[c].room.id)
         /\ IF out = "ok"
            THEN LET row == [id |-> nextPlayerId, room_id |-> op[c].room.id,
                             name |-> op[c].name, is_host |-> TRUE,
                             joined_at |-> now]
                 IN  /\ dbPlayers' = dbPlayers \cup {row}
                     /\ nextPlayerId' = nextPlayerId + 1
                     /\ now' = now + 1
                     /\ NotifyPlayers(op[c].room.id)
                     /\ op' = [op EXCEPT ![c].pc = "host_inserted",
                                         ![c].player = row]
                     /\ UNCHANGED <<loading, dbRooms>>
            ELSE /\ OpEnds(c)
                 /\ dbRooms' = dbRooms \ {op[c].room}
                 /\ dbPlayers' = dbPlayers \ PlayersOf(op[c].room.id)
                 /\ UNCHANGED <<nextPlayerId, now, evPlayers, delivered>>
    /\ UNCHANGED <<location, clicks, nextRoomId, currentView, currentRoom,
                   currentPlayer, players, leave, channel, evRoomDelete,
                   fetches>>

\* the players insert of hostRoom, is_host: true
HostInsertPlayer(c) ==
    /\ op[c].pc = "host_insertPlayer"
    /\ InsertPlayer(c, TRUE, "host_inserted")

\* hostRoom after its second await: the three setters and the finally
HostEnterRoom(c) ==
    /\ op[c].pc = "host_inserted"
    /\ EnterRoom(c, op[c].room, op[c].player)
    /\ OpEnds(c)
    /\ UNCHANGED <<location, clicks, dbVars, players, leave, fetches>>

\* mutant: the room code is not checked
JoinRoomWithoutCodeCheck(c, name, typed) ==
    /\ location[c] = "lobby"
    /\ currentView[c] = "landing"
    /\ ~loading[c]
    /\ op[c].pc = "idle"
    /\ IF Trim(name) = <<>>
       THEN UNCHANGED <<loading, op, clicks>>
       ELSE /\ clicks < MaxClicks
            /\ clicks' = clicks + 1
            /\ loading' = [loading EXCEPT ![c] = TRUE]
            /\ op' = [op EXCEPT ![c] = [IdleOp EXCEPT !.pc = "join_findRoom",
                          !.name = name, !.code = ToUpperCase(typed)]]
    /\ UNCHANGED <<dbVars, currentView, currentRoom, currentPlayer, players,
                   leave, channel, evPlayers, delivered, evRoomDelete, fetches, location>>

\* --------------------------------------------------------------- joinRoom
\* the click on Join Room, up to the first await
JoinRoom(c, name, typed) ==
    /\ location[c] = "lobby"
    /\ currentView[c] = "landing"
    /\ ~loading[c]
    /\ op[c].pc = "idle"
    /\ IF Trim(name) = <<>> \/ Trim(typed) = <<>>
       THEN UNCHANGED <<loading, op, clicks>>
       ELSE /\ clicks < MaxClicks
            /\ clicks' = clicks + 1
            /\ loading' = [loading EXCEPT ![c] = TRUE]
            /\ op' = [op EXCEPT ![c] = [IdleOp EXCEPT !.pc = "join_findRoom",
                          !.name = name, !.code = ToUpperCase(typed)]]
    /\ UNCHANGED <<dbVars, currentView, currentRoom, currentPlayer, players,
                   leave, channel, evPlayers, delivered, evRoomDelete, fetches, location>>

\* mutant: the error of the lookup is not read
JoinFindRoomIgnoringError(c) ==
    /\ op[c].pc = "join_findRoom"
    /\ op' = [op EXCEPT ![c].pc = "join_countPlayers",
           ![c].room = IF CodeIsFree(op[c].code) THEN NullRoom
                       ELSE CHOOSE r \in dbRooms : r.code = op[c].code]
    /\ UNCHANGED <<location, clicks, dbVars, uiVars, leave, channel, evPlayers, delivered,
                   evRoomDelete, fetches>>

\* .from('rooms').select('*').eq('code', roomCode.toUpperCase()).single(),
\* where no row is an { error } result, and `if (roomError || !roomData)`
JoinFindRoom(c) ==
    /\ op[c].pc = "join_findRoom"
    /\ \E out \in StoreOutcomes :
         /\ out = "ok" => ~CodeIsFree(op[c].code)
         /\ IF out = "ok"
            THEN /\ op' = [op EXCEPT ![c].pc = "join_countPlayers",
                     ![c].room = CHOOSE r \in dbRooms : r.code = op[c].code]
                 /\ UNCHANGED loading
            ELSE OpEnds(c)
    /\ UNCHANGED <<location, clicks, dbVars, currentView, currentRoom, currentPlayer, players,
                   leave, channel, evPlayers, delivered, evRoomDelete, fetches>>

\* mutant: > for >=
RoomIsOverFull(n, room) == n > room.max_players

\* existingPlayers.length >= roomData.max_players
RoomIsFull(n, room) == n >= room.max_players

\* .from('players').select('*').eq('room_id', roomData.id),
\* `if (playersError) throw playersError` and the capacity check
JoinCountPlayers(c) ==
    /\ op[c].pc = "join_countPlayers"
    /\ \E out \in StoreOutcomes :
         IF out = "ok"
            /\ ~RoomIsFull(Cardinality(PlayersOf(op[c].room.id)), op[c].room)
         THEN /\ op' = [op EXCEPT ![c].pc = "join_insertPlayer"]
              /\ UNCHANGED loading
         ELSE OpEnds(c)
    /\ UNCHANGED <<location, clicks, dbVars, currentView, currentRoom, currentPlayer, players,
                   leave, channel, evPlayers, delivered, evRoomDelete, fetches>>

\* mutant: the joiner is inserted with is_host: true
JoinInsertPlayerAsHost(c) ==
    /\ op[c].pc = "join_insertPlayer"
    /\ InsertPlayer(c, TRUE, "join_inserted")

\* the players insert of joinRoom, is_host: false
JoinInsertPlayer(c) ==
    /\ op[c].pc = "join_insertPlayer"
    /\ InsertPlayer(c, FALSE, "join_inserted")

\* joinRoom after its third await: the three setters and the finally
JoinEnterRoom(c) ==
    /\ op[c].pc = "join_inserted"
    /\ EnterRoom(c, op[c].room, op[c].player)
    /\ OpEnds(c)
    /\ UNCHANGED <<location, clicks, dbVars, players, leave, fetches>>

\* -------------------------------------------------------------- leaveRoom
\* the click on a leave button, up to the first await: the call keeps the
\* currentPlayer and currentRoom of the render it was clicked in
LeaveRoom(c) ==
    /\ location[c] = "lobby"
    /\ currentView[c] = "room"
    /\ currentPlayer[c] # NullPlayer
    /\ currentRoom[c] # NullRoom
    /\ leave[c].pc = "idle"
    /\ clicks < MaxClicks
    /\ clicks' = clicks + 1
    /\ leave' = [leave EXCEPT ![c] = [pc |-> "deletePlayer",
                     room |-> currentRoom[c], player |-> currentPlayer[c]]]
    /\ UNCHANGED <<dbVars, uiVars, op, channel, evPlayers, delivered, evRoomDelete,
                   fetches, location>>

\* mutant: the delete filters on room_id
LeaveDeletePlayerByRoom(c) ==
    /\ leave[c].pc = "deletePlayer"
    /\ \E out \in StoreOutcomes :
         /\ leave' = [leave EXCEPT ![c] =
                IF out = "reject" THEN IdleLeave
                ELSE [@ EXCEPT !.pc = IF leave[c].player.is_host
                                      THEN "deleteRoom" ELSE "settled"]]
         /\ IF out = "ok"
            THEN LET gone == PlayersOf(leave[c].player.room_id)
                 IN  /\ dbPlayers' = dbPlayers \ gone
                     /\ IF gone = {} THEN UNCHANGED <<evPlayers, delivered>>
                        ELSE NotifyPlayers(leave[c].player.room_id)
            ELSE UNCHANGED <<dbPlayers, evPlayers, delivered>>
    /\ UNCHANGED <<location, clicks, dbRooms, nextRoomId, nextPlayerId, now, uiVars, op,
                   channel, evRoomDelete, fetches>>

\* mutant: the delete filters on name
LeaveDeletePlayerByName(c) ==
    /\ leave[c].pc = "deletePlayer"
    /\ \E out \in StoreOutcomes :
         /\ leave' = [leave EXCEPT ![c] =
                IF out = "reject" THEN IdleLeave
                ELSE [@ EXCEPT !.pc = IF leave[c].player.is_host
                                      THEN "deleteRoom" ELSE "settled"]]
         /\ IF out = "ok"
            THEN LET gone == {p \in dbPlayers : p.name = leave[c].player.name}
                 IN  /\ dbPlayers' = dbPlayers \ gone
                     /\ IF gone = {} THEN UNCHANGED <<evPlayers, delivered>>
                        ELSE NotifyPlayers(leave[c].player.room_id)
            ELSE UNCHANGED <<dbPlayers, evPlayers, delivered>>
    /\ UNCHANGED <<location, clicks, dbRooms, nextRoomId, nextPlayerId, now, uiVars, op,
                   channel, evRoomDelete, fetches>>

\* .from('players').delete().eq('id', currentPlayer.id): its result is not
\* read, so an { error } goes on like a success; a rejection goes to the catch,
\* which changes no state
LeaveDeletePlayer(c) ==
    /\ leave[c].pc = "deletePlayer"
    /\ \E out \in StoreOutcomes :
         /\ leave' = [leave EXCEPT ![c] =
                IF out = "reject" THEN IdleLeave
                ELSE [@ EXCEPT !.pc = IF leave[c].player.is_host
                                      THEN "deleteRoom" ELSE "settled"]]
         /\ IF out = "ok"
            THEN LET gone == {p \in dbPlayers : p.id = leave[c].player.id}
                 IN  /\ dbPlayers' = dbPlayers \ gone
                     /\ IF gone = {} THEN UNCHANGED <<evPlayers, delivered>>
                        ELSE NotifyPlayers(leave[c].player.room_id)
            ELSE UNCHANGED <<dbPlayers, evPlayers, delivered>>
    /\ UNCHANGED <<location, clicks, dbRooms, nextRoomId, nextPlayerId, now, uiVars, op,
                   channel, evRoomDelete, fetches>>

\* .from('rooms').delete().eq('id', currentRoom.id), with the players rows
\* ON DELETE CASCADE removes; the feed notifies of every removed row
LeaveDeleteRoom(c) ==
    /\ leave[c].pc = "deleteRoom"
    /\ \E out \in StoreOutcomes :
         /\ leave' = [leave EXCEPT ![c] =
                IF out = "reject" THEN IdleLeave ELSE [@ EXCEPT !.pc = "settled"]]
         /\ IF out = "ok" /\ RoomExists(leave[c].room.id)
            THEN /\ dbRooms' = {r \in dbRooms : r.id # leave[c].room.id}
                 /\ dbPlayers' = dbPlayers \ PlayersOf(leave[c].room.id)
                 /\ IF PlayersOf(leave[c].room.id) = {} THEN UNCHANGED <<evPlayers, delivered>>
                    ELSE NotifyPlayers(leave[c].room.id)
                 /\ evRoomDelete' = [d \in Clients |->
                        evRoomDelete[d] \/ channel[d] = leave[c].room.id]
            ELSE UNCHANGED <<dbRooms, dbPlayers, evPlayers, delivered, evRoomDelete>>
    /\ UNCHANGED <<location, clicks, nextRoomId, nextPlayerId, now, uiVars, op, channel, fetches>>

\* the end of leaveRoom's try block: the five setters
LeaveDone(c) ==
    /\ leave[c].pc = "settled"
    /\ ResetToLanding(c)
    /\ leave' = [leave EXCEPT ![c] = IdleLeave]
    /\ UNCHANGED <<location, clicks, dbVars, loading, op, fetches>>

\* ------------------------------------------------ the channel's handlers
\* a players notification: () => { fetchPlayers() }, the fetchPlayers of the
\* render the effect ran in, whose currentRoom is the channel's room
OnPlayersChange(c) ==
    /\ evPlayers[c] > 0
    /\ evPlayers' = [evPlayers EXCEPT ![c] = @ - 1]
    /\ fetches' = [fetches EXCEPT ![c] =
           @ (+) SetToBag({[room |-> channel[c], st |-> "sent", data |-> <<>>]})]
    /\ UNCHANGED <<location, clicks, dbVars, uiVars, op, leave, channel,
                   delivered, evRoomDelete>>

\* the query of fetchPlayers at the store; an { error } is only logged
FetchPlayersQuery(c) ==
    \E f \in BagToSet(fetches[c]) :
      /\ f.st = "sent"
      /\ \E out \in {"ok", "error"} :
           fetches' = [fetches EXCEPT ![c] = (@ (-) SetToBag({f})) (+)
               IF out = "ok"
               THEN SetToBag({[f EXCEPT !.st = "ok",
                                        !.data = ListPlayers(f.room)]})
               ELSE EmptyBag]
      /\ UNCHANGED <<location, clicks, dbVars, uiVars, op, leave, channel, evPlayers, delivered,
                     evRoomDelete>>

\* fetchPlayers after its await: setPlayers(data || [])
FetchPlayersDone(c) ==
    \E f \in BagToSet(fetches[c]) :
      /\ f.st = "ok"
      /\ fetches' = [fetches EXCEPT ![c] = @ (-) SetToBag({f})]
      /\ players' = [players EXCEPT ![c] = f.data]
      /\ UNCHANGED <<location, clicks, dbVars, currentView, currentRoom, currentPlayer,
                     loading, op, leave, channel, evPlayers, delivered, evRoomDelete>>

\* a rooms DELETE notification: the four setters
OnRoomDelete(c) ==
    /\ evRoomDelete[c]
    /\ ResetToLanding(c)
    /\ UNCHANGED <<location, clicks, dbVars, loading, op, leave, fetches>>

\* -------------------------------------------------------------- startGame
\* navigate('/game'): the router replaces the lobby by the game page, the
\* component is unmounted and the cleanup of its effect removes the channel.
\* Calls the session has in flight go on; it gets no further clicks.
Navigate(c) ==
    /\ location' = [location EXCEPT ![c] = "game"]
    /\ RunEffect(c, NullRoom)

\* mutant: the is_host check is left out
StartGameWithoutHostCheck(c) ==
    /\ location[c] = "lobby"
    /\ IF currentRoom[c] = NullRoom
       THEN UNCHANGED <<location, channel, evPlayers, delivered, evRoomDelete>>
       ELSE IF Len(players[c]) < 2
            THEN UNCHANGED <<location, channel, evPlayers, delivered, evRoomDelete>>
            ELSE Navigate(c)
    /\ UNCHANGED <<clicks, dbVars, uiVars, op, leave, fetches>>

\* startGame: `if (!currentRoom || !currentPlayer?.is_host) return`, then the
\* players.length < 2 toast and return, then navigate('/game')
StartGame(c) ==
    /\ location[c] = "lobby"
    /\ IF currentRoom[c] = NullRoom \/ ~currentPlayer[c].is_host
       THEN UNCHANGED <<location, channel, evPlayers, delivered, evRoomDelete>>
       ELSE IF Len(players[c]) < 2
            THEN UNCHANGED <<location, channel, evPlayers, delivered, evRoomDelete>>
            ELSE Navigate(c)
    /\ UNCHANGED <<clicks, dbVars, uiVars, op, leave, fetches>>

Next ==
    \E c \in Clients :
      \/ \E name \in PlayerNames, raw \in RandomBase36 : HostRoom(c, name, raw)
      \/ HostInsertRoom(c)
      \/ HostInsertPlayer(c)
      \/ HostEnterRoom(c)
      \/ \E name \in PlayerNames, typed \in TypedCodes : JoinRoom(c, name, typed)
      \/ JoinFindRoom(c)
      \/ JoinCountPlayers(c)
      \/ JoinInsertPlayer(c)
      \/ JoinEnterRoom(c)
      \/ LeaveRoom(c)
      \/ LeaveDeletePlayer(c)
      \/ LeaveDeleteRoom(c)
      \/ LeaveDone(c)
      \/ OnPlayersChange(c)
      \/ FetchPlayersQuery(c)
      \/ FetchPlayersDone(c)
      \/ OnRoomDelete(c)
      \/ StartGame(c)

Spec == Init /\ [][Next]_vars

\* ================================================================ claims
\* a step of session c's hostRoom / joinRoom call from one await to the next
OpStep(c, from, to) == op[c].pc = from /\ op'[c].pc = to
\* a step of session c's leaveRoom call
LeaveStep(c, from, to) == leave[c].pc = from /\ leave'[c].pc = to
InLanding(c) ==
    /\ currentView[c] = "landing"
    /\ currentRoom[c] = NullRoom
    /\ currentPlayer[c] = NullPlayer

\* C1: a host action whose two inserts the store carries out adds exactly one
\* room row (first insert) and exactly one player row (second insert), that
\* player row has is_host = TRUE and the new room's id, no other step of the
\* action touches the tables, and the action ends with the session in the room
\* view, currentRoom and currentPlayer being those two rows.
C1_HostCreatesRoomAndHostPlayer ==
    [][\A c \in Clients :
        /\ OpStep(c, "idle", "host_insertRoom") =>
             UNCHANGED <<dbRooms, dbPlayers>>
        /\ OpStep(c, "host_insertRoom", "host_insertPlayer") =>
             /\ op'[c].room \notin dbRooms
             /\ dbRooms' = dbRooms \cup {op'[c].room}
             /\ \A r \in dbRooms : r.id # op'[c].room.id
             /\ dbPlayers' = dbPlayers
        /\ OpStep(c, "host_insertPlayer", "host_inserted") =>
             /\ op'[c].player \notin dbPlayers
             /\ dbPlayers' = dbPlayers \cup {op'[c].player}
             /\ \A p \in dbPlayers : p.id # op'[c].player.id
             /\ op'[c].player.is_host
             /\ op'[c].player.room_id = op[c].room.id
             /\ op'[c].room = op[c].room
             /\ dbRooms' = dbRooms
        /\ op[c].pc = "host_inserted" /\ op'[c] # op[c] =>
             /\ op'[c].pc = "idle"
             /\ currentView'[c] = "room"
             /\ currentRoom'[c] = op[c].room
             /\ currentPlayer'[c] = op[c].player
             /\ currentPlayer'[c].is_host
             /\ currentPlayer'[c].room_id = currentRoom'[c].id
             /\ UNCHANGED <<dbRooms, dbPlayers>>
    ]_vars

\* a session is in the room view as the host of a room it has created
C1_Witness ==
    \E c \in Clients :
      /\ currentView[c] = "room"
      /\ currentPlayer[c].is_host
      /\ currentRoom[c] \in dbRooms
      /\ currentPlayer[c] \in dbPlayers
      /\ currentPlayer[c].room_id = currentRoom[c].id

\* C2: when a host or a join enters the room, the session's roster holds the
\* room's players at once: [the host player] after a host, the room's players
\* in join order after a join.
C2_RosterHeldOnEntry ==
    [][\A c \in Clients :
        /\ OpStep(c, "host_inserted", "idle") => players'[c] = <<op[c].player>>
        /\ OpStep(c, "join_inserted", "idle") =>
             /\ players'[c] = ListPlayers(op[c].room.id)
             /\ players'[c] # <<>>
             /\ players'[c][Len(players'[c])] = op[c].player
    ]_vars

\* C3 as stated: a join that has passed the capacity check succeeds, that is,
\* its call goes on to the insert and from there into the room.
C3_JoinBelowCapacitySucceeds ==
    [][\A c \in Clients :
        op[c].pc = "join_insertPlayer" /\ op'[c] # op[c] =>
            op'[c].pc = "join_inserted"
    ]_vars

\* C3 as amended: a join whose uppercased code is the code of a room, which
\* reads fewer player rows than max_players, and whose players insert the
\* store carries out, adds exactly one player row, with is_host = FALSE and
\* that room's id, changes no other row, and ends with the session in the room
\* view for that room.
C3_JoinInsertAddsOneNonHost ==
    [][\A c \in Clients :
        /\ OpStep(c, "join_findRoom", "join_countPlayers") =>
             /\ op'[c].room \in dbRooms
             /\ op'[c].room.code = op[c].code
             /\ UNCHANGED <<dbRooms, dbPlayers>>
        /\ OpStep(c, "join_countPlayers", "join_insertPlayer") =>
             /\ Cardinality(PlayersOf(op[c].room.id)) < op[c].room.max_players
             /\ UNCHANGED <<dbRooms, dbPlayers>>
        /\ OpStep(c, "join_insertPlayer", "join_inserted") =>
             /\ op'[c].player \notin dbPlayers
             /\ dbPlayers' = dbPlayers \cup {op'[c].player}
             /\ ~op'[c].player.is_host
             /\ op'[c].player.room_id = op[c].room.id
             /\ RoomExists(op[c].room.id)
             /\ dbRooms' = dbRooms
        /\ op[c].pc = "join_inserted" /\ op'[c] # op[c] =>
             /\ op'[c].pc = "idle"
             /\ currentView'[c] = "room"
             /\ currentRoom'[c] = op[c].room
             /\ currentPlayer'[c] = op[c].player
             /\ UNCHANGED <<dbRooms, dbPlayers>>
    ]_vars

\* a session has joined a room that other players are in
C3_Witness ==
    \E c \in Clients :
      /\ currentView[c] = "room"
      /\ ~currentPlayer[c].is_host
      /\ currentPlayer[c] \in dbPlayers
      /\ currentRoom[c] \in dbRooms
      /\ Cardinality(PlayersOf(currentRoom[c].id)) >= 2

\* C4: a join that reads at least max_players player rows of its room ends
\* there: no player row is inserted, the tables are unchanged, and the session
\* stays in the landing view with no current room or player.
C4_FullRoomRejectsJoin ==
    [][\A c \in Clients :
        /\ op[c].pc = "join_countPlayers"
        /\ Cardinality(PlayersOf(op[c].room.id)) >= op[c].room.max_players
        /\ op'[c] # op[c]
        => /\ op'[c].pc = "idle"
           /\ UNCHANGED dbVars
           /\ InLanding(c)'
           /\ InLanding(c)
    ]_vars

\* a join is about to read the rows of a room that is full
C4_Witness ==
    \E c \in Clients :
      /\ op[c].pc = "join_countPlayers"
      /\ RoomExists(op[c].room.id)
      /\ Cardinality(PlayersOf(op[c].room.id)) = op[c].room.max_players

\* C5: a join whose code is the code of no room ends at the lookup, whatever
\* the store answers: no row is created, changed or deleted and the session's
\* view, current room, current player and roster stay as they are, in Landing.
C5_UnknownCodeHasNoEffect ==
    [][\A c \in Clients :
        /\ op[c].pc = "join_findRoom"
        /\ CodeIsFree(op[c].code)
        /\ op'[c] # op[c]
        => /\ op'[c].pc = "idle"
           /\ UNCHANGED dbVars
           /\ UNCHANGED <<currentView, currentRoom, currentPlayer, players>>
           /\ InLanding(c)
    ]_vars

\* a join is about to look up a code no room has
C5_Witness ==
    \E c \in Clients : op[c].pc = "join_findRoom" /\ CodeIsFree(op[c].code)

\* C6: when a host's leave has run to the end of its try block, the store holds
\* no row of that room and no player row with that room's id.
C6_HostLeaveRemovesRoom ==
    [][\A c \in Clients :
        LeaveStep(c, "settled", "idle") /\ leave[c].player.is_host =>
            /\ ~RoomExists(leave[c].room.id)
            /\ PlayersOf(leave[c].room.id) = {}
    ]_vars

\* C7: a session in the room view of a room that has been deleted is forced
\* back to Landing.  The one step that forces it is the handler of the rooms
\* DELETE notification, so the notification is pending for every such session.
C7_DeletedRoomForcesSessionsOut ==
    \A c \in Clients :
        currentView[c] = "room" /\ ~RoomExists(currentRoom[c].id) =>
            evRoomDelete[c]

C9_LeaveAlwaysEndsInLanding ==
    [][\A c \in Clients :
        leave[c].pc # "idle" /\ leave'[c].pc = "idle" =>
            InLanding(c)' /\ players'[c] = <<>>
    ]_vars

\* C9 as amended: a leave whose delete calls return, with success or with an
\* error result, ends with the session in Landing with no current room, no
\* current player and an empty roster, for a host and a non-host alike; a
\* leave one of whose delete calls rejects ends in the catch block, and the
\* session's view, room, player and roster stay as they are.
C9_LeaveEndsInLandingUnlessRejected ==
    [][\A c \in Clients :
        /\ leave[c].pc = "deletePlayer" /\ leave'[c] # leave[c] =>
             \/ leave'[c].pc = (IF leave[c].player.is_host THEN "deleteRoom"
                                ELSE "settled")
             \/ leave'[c].pc = "idle"
        /\ leave[c].pc = "deleteRoom" /\ leave'[c] # leave[c] =>
             leave'[c].pc \in {"settled", "idle"}
        /\ leave[c].pc \in {"deletePlayer", "deleteRoom"} /\ leave'[c].pc = "idle" =>
             UNCHANGED <<dbVars, uiVars, channel>>
        /\ leave[c].pc = "settled" /\ leave'[c] # leave[c] =>
             /\ leave'[c].pc = "idle"
             /\ InLanding(c)'
             /\ players'[c] = <<>>
    ]_vars

\* a leave is about to end although its delete returned an error result: the
\* player's row is still in the table
C9_Witness ==
    \E c \in Clients :
      /\ leave[c].pc = "settled"
      /\ leave[c].player \in dbPlayers
      /\ currentView[c] = "room"
      /\ players[c] # <<>>

IsOrderedByJoinedAt(roster) ==
    \A i \in 1..Len(roster), j \in 1..Len(roster) :
        i < j => roster[i].joined_at <= roster[j].joined_at

\* C10: every session's roster is ordered non-decreasingly by joined_at, in
\* every state, whatever the order in which notifications are handled and
\* refresh queries answered.
C10_RosterOrderedByJoinedAt ==
    \A c \in Clients : IsOrderedByJoinedAt(players[c])

\* a session shows a roster of several players, one of them joined while the
\* sessions ran
C10_Witness ==
    \E c \in Clients :
      /\ Len(players[c]) >= 2
      /\ \E i \in 1..Len(players[c]) : players[c][i].id < 100

\* startGame's conditions for handing over to the game page
MayStartGame(c) ==
    /\ currentView[c] = "room"
    /\ currentRoom[c] # NullRoom
    /\ currentPlayer[c].is_host
    /\ Len(players[c]) >= 2

\* C11: a session goes over to the game page only from the room view, with a
\* current player that is the host and a roster of at least 2 players; a
\* startGame in any other state changes nothing, in the session or the store.
C11_StartGameOnlyForHostWithTwoPlayers ==
    [][\A c \in Clients :
        /\ location'[c] # location[c] =>
             /\ MayStartGame(c)
             /\ location'[c] = "game"
             /\ UNCHANGED <<dbVars, uiVars>>
        /\ StartGame(c) /\ ~MayStartGame(c) => UNCHANGED vars
    ]_vars

\* a host with a roster of two has started the game
C11_Witness ==
    \E c \in Clients :
      /\ location[c] = "game"
      /\ currentPlayer[c].is_host
      /\ Len(players[c]) = 2

\* C12: a click on Host Room with an empty or blank name, and a click on Join
\* Room with an empty or blank name or room code, changes nothing: no call
\* is started, and the store, the view, the room, the player, the roster and
\* the loading flag stay as they are.
C12_BlankInputChangesNothing ==
    [][\A c \in Clients :
        currentView[c] = "landing" /\ op[c].pc = "idle" =>
        /\ \A name \in {n \in PlayerNames : Trim(n) = <<>>}, raw \in RandomBase36 :
             HostRoom(c, name, raw) => UNCHANGED vars
        /\ \A name \in PlayerNames, typed \in TypedCodes :
             (Trim(name) = <<>> \/ Trim(typed) = <<>>) /\ JoinRoom(c, name, typed)
             => UNCHANGED vars
    ]_vars

\* a session in the landing view whose buttons are enabled, while the store
\* holds a room another session has created: any blank click is possible here
C12_Witness ==
    \E c \in Clients :
      /\ location[c] = "lobby"
      /\ currentView[c] = "landing"
      /\ ~loading[c]
      /\ op[c].pc = "idle"
      /\ \E r \in dbRooms : r.id < 100
      /\ \E name \in PlayerNames : name # <<>> /\ Trim(name) = <<>>
      /\ \E typed \in TypedCodes : typed # <<>> /\ Trim(typed) = <<>>

\* the awaits of hostRoom and joinRoom
OpCallPcs ==
    {"host_insertRoom", "host_insertPlayer", "join_findRoom",
     "join_countPlayers", "join_insertPlayer"}

\* C13: a hostRoom or joinRoom call that ends at one of its store calls (the
\* call failed, or the room was full) ends with the session in Landing, no
\* current room or player, the roster untouched, the loading flag false and
\* no row written by that step; no earlier step of the call touches the view,
\* the room, the player or the roster; a session enters the room view only in the
\* continuation that follows the successful players insert, with the rows
\* the store returned.
C13_FailedCallEndsInLanding ==
    [][\A c \in Clients :
        /\ op[c].pc \in OpCallPcs /\ op'[c].pc = "idle" =>
             /\ InLanding(c) /\ InLanding(c)'
             /\ players'[c] = players[c]
             /\ ~loading'[c]
             /\ channel'[c] = 0
             /\ UNCHANGED dbVars
        /\ op'[c] # op[c] /\ op[c].pc \notin {"host_inserted", "join_inserted"} =>
             /\ InLanding(c) /\ InLanding(c)'
             /\ players'[c] = players[c]
        /\ currentView[c] = "landing" /\ currentView'[c] = "room" =>
             /\ op[c].pc \in {"host_inserted", "join_inserted"}
             /\ currentRoom'[c] = op[c].room
             /\ currentPlayer'[c] = op[c].player
        /\ op'[c].pc \in {"host_inserted", "join_inserted"} /\ op'[c] # op[c] =>
             /\ op[c].pc \in {"host_insertPlayer", "join_insertPlayer"}
             /\ op'[c].player \in dbPlayers' \ dbPlayers
             /\ op'[c].room \in dbRooms
    ]_vars

\* calls have been started and all have ended, no row was ever inserted, and
\* every session is in Landing again with its buttons enabled
C13_Witness ==
    /\ clicks >= 2
    /\ nextRoomId = 1
    /\ nextPlayerId = 1
    /\ \A c \in Clients :
         /\ op[c].pc = "idle"
         /\ InLanding(c)
         /\ ~loading[c]
         /\ players[c] = <<>>

\* C14: no two room rows carry the same code; and a rooms insert of hostRoom
\* whose generated code a room row already carries adds no row, ends the
\* call (no second attempt with another code) and leaves the session in
\* Landing.
C14_RoomCodesUnique ==
    /\ [](\A r1 \in dbRooms, r2 \in dbRooms : r1.code = r2.code => r1 = r2)
    /\ [][\A c \in Clients :
            /\ op[c].pc = "host_insertRoom"
            /\ op'[c] # op[c]
            /\ \E r \in dbRooms : r.code = op[c].code
            => /\ op'[c] = IdleOp
               /\ UNCHANGED dbVars
               /\ InLanding(c)'
               /\ ~loading'[c]
       ]_vars

\* two different rooms exist, and a hostRoom call has generated the code of a
\* room that another session created
C14_Witness ==
    \E c \in Clients :
      /\ op[c].pc = "host_insertRoom"
      /\ \E r \in dbRooms : r.code = op[c].code /\ r.id < 100
      /\ Cardinality(dbRooms) = 2

OverCapacity(r) == Cardinality(PlayersOf(r.id)) > r.max_players

\* C15: the capacity check of joinRoom does not bound the room: a room with
\* more player rows than max_players is reachable (the witness), and no step
\* takes a row out of such a room except a leave, which removes the leaver's
\* own row or, for the host's rooms delete, the room with all its rows.
C15_ExcessRowsStay ==
    [][\A r \in dbRooms :
        OverCapacity(r) =>
          LET gone == PlayersOf(r.id) \ dbPlayers'
          IN  \/ gone = {}
              \/ \E c \in Clients :
                   /\ leave[c].room.id = r.id
                   /\ leave'[c] # leave[c]
                   /\ \/ leave[c].pc = "deletePlayer" /\ gone = {leave[c].player}
                      \/ /\ leave[c].pc = "deleteRoom"
                         /\ leave[c].player.is_host
                         /\ r \notin dbRooms'
    ]_vars

\* two joins have both passed the check for the last free slot and both
\* sessions are in the room view of a room with max_players + 1 rows
C15_Witness ==
    \E r \in dbRooms, c \in Clients, d \in Clients :
      /\ c # d
      /\ Cardinality(PlayersOf(r.id)) = r.max_players + 1
      /\ currentView[c] = "room" /\ currentRoom[c] = r
      /\ currentView[d] = "room" /\ currentRoom[d] = r
      /\ currentPlayer[c] \in dbPlayers /\ ~currentPlayer[c].is_host
      /\ currentPlayer[d] \in dbPlayers /\ ~currentPlayer[d].is_host

\* C16: a session in the room view whose channel has been sent a players
\* notification, with no notification left to handle and no fetchPlayers
\* call in flight, shows the store's player list of its room, in joined_at
\* order, when no session has a call in flight.  (Every mutation notifies in
\* the step that makes it, so in such a state nothing is pending for the
\* session and nothing will be unless a user clicks again.)
C16_SettledRosterEqualsStore ==
    \A c \in Clients :
        /\ location[c] = "lobby"
        /\ currentView[c] = "room"
        /\ RoomExists(currentRoom[c].id)
        /\ channel[c] = currentRoom[c].id
        /\ delivered[c]
        /\ evPlayers[c] = 0
        /\ ~evRoomDelete[c]
        /\ fetches[c] = EmptyBag
        /\ \A d \in Clients : op[d].pc = "idle" /\ leave[d].pc = "idle"
        => players[c] = ListPlayers(currentRoom[c].id)

HostsOf(r) == {p \in PlayersOf(r.id) : p.is_host}

\* C18 as stated: every room row has exactly one player row with is_host.
C18_ExactlyOneHostPerRoom ==
    \A r \in dbRooms : Cardinality(HostsOf(r)) = 1

\* C18 as amended: every room row has at most one player row with is_host; a
\* room row is inserted without one, gets its one host row from the players
\* insert of the hostRoom call that created it, and loses it only to the
\* players delete of that host's leaveRoom.  In between the room has none.
C18_AtMostOneHostPerRoom ==
    /\ [](\A r \in dbRooms : Cardinality(HostsOf(r)) <= 1)
    /\ [][\A r \in dbRooms' :
            IF r \notin dbRooms
            THEN /\ HostsOf(r)' = {}
                 /\ \E c \in Clients :
                      op[c].pc = "host_insertRoom" /\ op'[c].room = r
            ELSE HostsOf(r)' # HostsOf(r) =>
                   \/ \E c \in Clients :
                        /\ op[c].pc = "host_insertPlayer"
                        /\ op[c].room = r
                        /\ HostsOf(r) = {}
                        /\ HostsOf(r)' = {op'[c].player}
                   \/ \E c \in Clients :
                        /\ leave[c].pc = "deletePlayer"
                        /\ leave[c].room = r
                        /\ HostsOf(r) = {leave[c].player}
                        /\ HostsOf(r)' = {}
       ]_vars

\* a host's leave has deleted the host's row and not yet the room, which
\* still has another player
C18_Witness ==
    \E c \in Clients :
      /\ leave[c].pc = "deleteRoom"
      /\ leave[c].room \in dbRooms
      /\ HostsOf(leave[c].room) = {}
      /\ PlayersOf(leave[c].room.id) # {}

\* C19: every player row's room_id is the id of a room row; a step that
\* removes a room row removes all its player rows with it; and a players
\* insert is carried out only for a room that exists: the insert of a join
\* whose room has been deleted in the meantime adds nothing and ends the call.
C19_PlayersReferenceExistingRoom ==
    /\ [](\A p \in dbPlayers : \E r \in dbRooms : r.id = p.room_id)
    /\ [][/\ \A r \in dbRooms \ dbRooms' :
               \A p \in dbPlayers' : p.room_id # r.id
          /\ \A p \in dbPlayers' \ dbPlayers :
               \E r \in dbRooms : r.id = p.room_id
          /\ \A c \in Clients :
               /\ op[c].pc \in {"host_insertPlayer", "join_insertPlayer"}
               /\ op'[c] # op[c]
               /\ \A r \in dbRooms : r.id # op[c].room.id
               => /\ op'[c] = IdleOp
                  /\ dbPlayers' = dbPlayers
                  /\ InLanding(c)'
       ]_vars

\* a join has passed the capacity check of a room that the host's leave has
\* deleted since; its players insert is about to be answered
C19_Witness ==
    \E c \in Clients :
      /\ op[c].pc = "join_insertPlayer"
      /\ \A r \in dbRooms : r.id # op[c].room.id
      /\ \E d \in Clients : leave[d].room = op[c].room /\ leave[d].pc = "settled"

\* C20 as stated: when the players insert of hostRoom fails after the rooms
\* insert was carried out, the room row stays in the store with no player
\* row, and the session is in Landing and holds no reference to the room.
C20_FailedHostLeavesEmptyRoom ==
    [][\A c \in Clients :
        OpStep(c, "host_insertPlayer", "idle") /\ op[c].room \in dbRooms =>
            /\ op[c].room \in dbRooms'
            /\ \A p \in dbPlayers' : p.room_id # op[c].room.id
            /\ InLanding(c)'
            /\ op'[c] = IdleOp
    ]_vars

\* C20 as amended: the room row stays, without a host row and with exactly
\* the rows it had (none, unless another session has joined it by its code
\* in the meantime); the session is in Landing and holds no reference to the
\* room; and no later step removes the row, since a room row is removed only
\* by the rooms delete of a leave of its host.
C20_FailedHostLeavesHostlessRoom ==
    [][/\ \A c \in Clients :
            OpStep(c, "host_insertPlayer", "idle") /\ op[c].room \in dbRooms =>
                /\ UNCHANGED <<dbRooms, dbPlayers>>
                /\ op[c].room \in dbRooms'
                /\ \A p \in dbPlayers' : p.room_id = op[c].room.id => ~p.is_host
                /\ InLanding(c)'
                /\ op'[c] = IdleOp
                /\ channel'[c] = 0
       /\ \A r \in dbRooms \ dbRooms' :
            \E c \in Clients :
              /\ leave[c].pc = "deleteRoom"
              /\ leave[c].room = r
              /\ leave[c].player.is_host
    ]_vars

\* a room row a session has inserted, with no player row, that no session
\* refers to: no players insert has ever been carried out
C20_Witness ==
    /\ nextPlayerId = 1
    /\ \E r \in dbRooms :
         /\ r.id < 100
         /\ PlayersOf(r.id) = {}
         /\ \A c \in Clients :
              /\ op[c].pc = "idle"
              /\ InLanding(c)
              /\ leave[c].room # r

\* C21: a session's roster holds only rows of its current room, and is empty
\* while the session is in the landing view: no answer of a fetchPlayers call
\* is installed after the session has left the room the call was made for.
C21_RosterOnlyOfCurrentRoom ==
    \A c \in Clients :
        location[c] = "lobby" =>
            /\ currentView[c] = "landing" => players[c] = <<>>
            /\ \A i \in 1..Len(players[c]) :
                 players[c][i].room_id = currentRoom[c].id

\* C22: no room has two player rows with is_host, in any reachable state.
C22_NoRoomHasTwoHosts ==
    \A p \in dbPlayers, q \in dbPlayers :
        p.room_id = q.room_id /\ p.is_host /\ q.is_host => p = q

\* a room a session has created has its host row and the row of a player
\* who joined it
C22_Witness ==
    \E r \in dbRooms :
      /\ r.id < 100
      /\ Cardinality(HostsOf(r)) = 1
      /\ Cardinality(PlayersOf(r.id)) >= 2

\* C23: in every reachable state a session's view, room and player agree:
\* the view is the room view iff the current room is set iff the current
\* player is set, and the current player is a row of the current room.
C23_ViewRoomPlayerAgree ==
    \A c \in Clients :
        /\ (currentView[c] = "room") = (currentRoom[c] # NullRoom)
        /\ (currentRoom[c] # NullRoom) = (currentPlayer[c] # NullPlayer)
        /\ currentPlayer[c].room_id = currentRoom[c].id

\* one session is in the room view; the other has left that room and is in
\* Landing although its players delete was not carried out: its row is still
\* in the room
C23_Witness ==
    \E c \in Clients, d \in Clients :
      /\ c # d
      /\ currentView[c] = "room"
      /\ currentPlayer[c] \in dbPlayers
      /\ InLanding(d)
      /\ op[d].pc = "idle"
      /\ leave[d].pc = "idle"
      /\ \E p \in PlayersOf(currentRoom[c].id) :
           p # currentPlayer[c] /\ p.id < 100
====
